---- MODULE Spec2Model ----
(***************************************************************************)
(* Model of tshirt_review.py: a Streamlit page that lets a shopper enter a *)
(* name, pick one of the products ordered under that name, submit a review *)
(* and read the reviews of the picked product.                             *)
(*                                                                         *)
(* The script is re-executed top to bottom for every interaction of every  *)
(* session.  One run of the script is split at the statements that touch   *)
(* something shared (the memo caches, the database, the clock):            *)
(*   Start   lines 26-58    catalog load, name entry, empty-name stop      *)
(*   Lookup  lines 61-76    purchase lookup, empty stop, selection, image  *)
(*   Submit  lines 79-107   text, button, validation, row with timestamp   *)
(*   Insert  lines 101-105  INSERT commits, or raises and is caught        *)
(*   Read    lines 113-123  SELECT of the reviews of the picked product    *)
(* The order process, the catalog maintainer, the wall clock and the       *)
(* host's cache clearing are the environment.                              *)
(***************************************************************************)
EXTENDS Integers, Sequences, FiniteSets

\* ------------------------------------------------------------------ bounds
MaxRuns == 3
MaxEnvEvents == 2
MaxClock == 1

\* ----------------------------------------------------------------- domains
Sessions == {"s1", "s2"}
UserNames == {"ann", "bob"}
InputNames == UserNames \cup {""}
ProductIds == {1, 2}
Whitespace == {" "}
\* text area values: empty, whitespace only, text padded with whitespace
Texts == {<<>>, <<" ", " ">>, <<" ", "a", " ">>}
ProductRows == {[product_name |-> "tee", image_url |-> "tee.png"],
                [product_name |-> "polo", image_url |-> "polo.png"]}
Missing == "NaN"

VARIABLES
    products,         \* cyshop.products: set of (product_id, product_name, image_url)
    orders,           \* cyshop.orders: bag of (name, product_id)
    product_reviews,  \* cyshop.product_reviews: rows in commit order
    clock,            \* the wall clock datetime.utcnow() reads
    catalog_memo,     \* st.cache_data of load_products_df: {} or {DataFrame}
    purchases_memo,   \* st.cache_data of fetch_user_products: per argument, {} or {DataFrame}
    env_events,       \* number of order, catalog and cache events so far
    runs,             \* number of script runs started so far
    last_lookup,      \* per name: {} or {the result of the last lookup since the data
                      \* last changed, and whether the cache was cleared after it}
    pc,               \* per session: position of the script run
    user_name,        \* per session: st.session_state.user_name
    products_df,      \* per run: module global products_df
    user_items,       \* per run: {} or {DataFrame of purchases}
    item_row,         \* per run: {} or {selected row}
    review_txt,       \* per run: {} or {text area value}
    button,           \* per run: value of st.button("Submit review")
    review_row,       \* per run: {} or {row handed to insert_review}
    inserted_at,      \* per run: position of the row it committed, 0 if none
    outcome,          \* per session: the message on the page
    prev_df,          \* per session: {} or {the reviews read for the page}
    panel             \* per session: how the page presents the reviews

dbvars == <<products, orders, product_reviews>>
envvars == <<clock, env_events, runs, last_lookup>>
memovars == <<catalog_memo, purchases_memo>>
localvars == <<products_df, user_items, item_row, review_txt, button, review_row,
               inserted_at>>
pagevars == <<outcome, prev_df, panel>>
vars == <<dbvars, envvars, memovars, pc, user_name, localvars, pagevars>>

\* ------------------------------------------------------------ pure helpers
\* str.strip(): drop leading and trailing whitespace
RECURSIVE LStrip(_)
LStrip(t) == IF t = <<>> THEN t
             ELSE IF Head(t) \in Whitespace THEN LStrip(Tail(t)) ELSE t

RECURSIVE RStrip(_)
RStrip(t) == IF t = <<>> THEN t
             ELSE IF t[Len(t)] \in Whitespace THEN RStrip(SubSeq(t, 1, Len(t) - 1)) ELSE t

Strip(t) == RStrip(LStrip(t))

\* a DataFrame whose row order is not determined by the query is a bag of rows
BagSize(b) == LET RECURSIVE Sum(_)
                  Sum(S) == IF S = {} THEN 0
                            ELSE LET x == CHOOSE y \in S : TRUE
                                 IN b[x] + Sum(S \ {x})
              IN Sum(DOMAIN b)

\* SELECT product_id, product_name, image_url FROM cyshop.products; set_index
ReadProducts == [p \in {r.product_id : r \in products} |->
                    LET r == CHOOSE x \in products : x.product_id = p
                    IN [product_name |-> r.product_name, image_url |-> r.image_url]]

\* SELECT DISTINCT o.product_id FROM cyshop.orders o WHERE o.name = :user
DistinctProductIds(user) ==
    LET ids == {o.product_id : o \in {x \in DOMAIN orders : x.name = user}}
    IN [i \in ids |-> 1]

\* user_purchases.merge(products_df, on="product_id", how="left")
MergeLeft(purchases, df) ==
    LET Row(p) == IF p \in DOMAIN df
                  THEN [product_id |-> p, product_name |-> df[p].product_name,
                        image_url |-> df[p].image_url]
                  ELSE [product_id |-> p, product_name |-> Missing, image_url |-> Missing]
    IN [r \in {Row(p) : p \in DOMAIN purchases} |->
           purchases[CHOOSE p \in DOMAIN purchases : Row(p) = r]]

\* body of fetch_user_products, run on a cache miss
FetchUserProductsBody(user, df) == MergeLeft(DistinctProductIds(user), df)

\* load_products_df() without its memo: the table is read on every call
LoadProductsDfUncached == ReadProducts

\* @st.cache_data load_products_df(): the memoized value if any, else the query
LoadProductsDf == IF catalog_memo = {} THEN ReadProducts
                  ELSE CHOOSE d \in catalog_memo : TRUE

\* fetch_user_products(user) without its memo: the body runs on every call
FetchUserProductsUncached(user, df) == FetchUserProductsBody(user, df)

\* @st.cache_data fetch_user_products(user): memo keyed by the argument only
FetchUserProducts(user, df) ==
    IF purchases_memo[user] = {} THEN FetchUserProductsBody(user, df)
    ELSE CHOOSE d \in purchases_memo[user] : TRUE

\* sql_prev with ORDER BY ts_utc ASC
ReviewsForProductAscending(pid) ==
    LET I == {i \in 1..Len(product_reviews) : product_reviews[i].product_id = pid}
        k == Cardinality(I)
        Ords == {f \in [1..k -> I] :
                    /\ \A i, j \in 1..k : i # j => f[i] # f[j]
                    /\ \A i, j \in 1..k : i < j =>
                          product_reviews[f[i]].ts_utc <= product_reviews[f[j]].ts_utc}
        Cols(r) == [user_name |-> r.user_name, review |-> r.review, ts_utc |-> r.ts_utc]
    IN {[i \in 1..k |-> Cols(product_reviews[f[i]])] : f \in Ords}

\* SELECT user_name, review, ts_utc ... WHERE product_id = :pid ORDER BY ts_utc DESC
\* rows with equal ts_utc come in any order
ReviewsForProduct(pid) ==
    LET I == {i \in 1..Len(product_reviews) : product_reviews[i].product_id = pid}
        k == Cardinality(I)
        Ords == {f \in [1..k -> I] :
                    /\ \A i, j \in 1..k : i # j => f[i] # f[j]
                    /\ \A i, j \in 1..k : i < j =>
                          product_reviews[f[i]].ts_utc >= product_reviews[f[j]].ts_utc}
        Cols(r) == [user_name |-> r.user_name, review |-> r.review, ts_utc |-> r.ts_utc]
    IN {[i \in 1..k |-> Cols(product_reviews[f[i]])] : f \in Ords}

\* lines 95-100: the row built by the submit handler of session s for text t
ReviewRow(s, t) ==
    [product_id |-> (CHOOSE r \in item_row[s] : TRUE).product_id,
     user_name |-> user_name[s],
     review |-> Strip(t),
     ts_utc |-> clock]

\* line 94 without the strip: if review_txt
AcceptedUnstripped(t) == t # <<>>

\* line 94: if review_txt.strip()
Accepted(t) == Strip(t) # <<>>

\* an insert that updates the row of the same product and user in place
InsertReviewUpsert(row) ==
    LET Same(i) == /\ product_reviews[i].product_id = row.product_id
                   /\ product_reviews[i].user_name = row.user_name
    IN IF \E i \in 1..Len(product_reviews) : Same(i)
       THEN [i \in 1..Len(product_reviews) |->
                IF Same(i) THEN row ELSE product_reviews[i]]
       ELSE Append(product_reviews, row)

\* an insert that first deletes the reviews of the same product and user
InsertReviewReplace(row) ==
    LET Other(r) == r.product_id # row.product_id \/ r.user_name # row.user_name
    IN Append(SelectSeq(product_reviews, Other), row)

\* lines 82-91: INSERT INTO cyshop.product_reviews ... VALUES (row)
InsertReview(row) == Append(product_reviews, row)

\* line 56 without the check
NoNameUnchecked(n) == FALSE

\* line 56: if not st.session_state.user_name
NoName(n) == n = ""

\* lines 120-123: an empty result is written as "No reviews yet", any other
\* as a table
ReviewsPanel(df) == IF df = <<>> THEN "no_reviews_yet" ELSE "table"

\* line 63: if user_items.empty
Empty(df) == DOMAIN df = {}

\* ------------------------------------------------------------------- Init
\* two catalog products; ann ordered product 1 twice and product 2 once; bob
\* ordered nothing
InitProducts == {[product_id |-> 1, product_name |-> "tee", image_url |-> "tee.png"],
                 [product_id |-> 2, product_name |-> "polo", image_url |-> "polo.png"]}
InitOrders == [o \in {[name |-> "ann", product_id |-> 1],
                      [name |-> "ann", product_id |-> 2]} |->
                  IF o.product_id = 1 THEN 2 ELSE 1]

Init ==
    /\ products = InitProducts
    /\ orders = InitOrders
    /\ product_reviews = <<>>
    /\ clock = 0
    /\ env_events = 0
    /\ runs = 0
    /\ last_lookup = [n \in InputNames |-> {}]
    /\ catalog_memo = {}
    /\ purchases_memo = [n \in InputNames |-> {}]
    /\ pc = [s \in Sessions |-> "idle"]
    /\ user_name = [s \in Sessions |-> ""]
    /\ products_df = [s \in Sessions |-> {}]
    /\ user_items = [s \in Sessions |-> {}]
    /\ item_row = [s \in Sessions |-> {}]
    /\ review_txt = [s \in Sessions |-> {}]
    /\ button = [s \in Sessions |-> FALSE]
    /\ review_row = [s \in Sessions |-> {}]
    /\ inserted_at = [s \in Sessions |-> 0]
    /\ outcome = [s \in Sessions |-> "none"]
    /\ prev_df = [s \in Sessions |-> {}]
    /\ panel = [s \in Sessions |-> "none"]

\* ----------------------------------------------------------- script steps
\* the run of session s is over (st.stop(), an uncaught exception or the last
\* line): the script's namespace is gone, the page and the session state stay
EndRun(s) ==
    /\ pc' = [pc EXCEPT ![s] = "idle"]
    /\ products_df' = [products_df EXCEPT ![s] = {}]
    /\ user_items' = [user_items EXCEPT ![s] = {}]
    /\ item_row' = [item_row EXCEPT ![s] = {}]
    /\ review_txt' = [review_txt EXCEPT ![s] = {}]
    /\ button' = [button EXCEPT ![s] = FALSE]
    /\ review_row' = [review_row EXCEPT ![s] = {}]
    /\ inserted_at' = [inserted_at EXCEPT ![s] = 0]

\* lines 26-58: a new run redraws the page; catalog from the memo or the
\* table; name entry; st.stop() on an empty name
Start(s) ==
    /\ pc[s] = "idle"
    /\ runs < MaxRuns
    /\ runs' = runs + 1
    /\ catalog_memo' = {LoadProductsDf}
    /\ prev_df' = [prev_df EXCEPT ![s] = {}]
    /\ panel' = [panel EXCEPT ![s] = "none"]
    /\ \E n \in InputNames :
          /\ user_name' = [user_name EXCEPT ![s] = n]
          /\ IF NoName(n)
             THEN /\ outcome' = [outcome EXCEPT ![s] = "enter_name"]
                  /\ UNCHANGED <<pc, products_df>>
             ELSE /\ outcome' = [outcome EXCEPT ![s] = "none"]
                  /\ pc' = [pc EXCEPT ![s] = "lookup"]
                  /\ products_df' = [products_df EXCEPT ![s] = {LoadProductsDf}]
    /\ UNCHANGED <<dbvars, clock, env_events, last_lookup, purchases_memo, user_items,
                   item_row, review_txt, button, review_row, inserted_at>>

\* lines 61-76: purchase lookup; st.stop() on an empty result; selectbox;
\* Image.open raises on a missing image_url and ends the run
Lookup(s) ==
    /\ pc[s] = "lookup"
    /\ LET df == CHOOSE d \in products_df[s] : TRUE
           items == FetchUserProducts(user_name[s], df)
       IN /\ purchases_memo' = [purchases_memo EXCEPT ![user_name[s]] = {items}]
          /\ last_lookup' = [last_lookup EXCEPT ![user_name[s]] =
                                {[result |-> items, cleared |-> FALSE]}]
          /\ IF Empty(items)
             THEN /\ outcome' = [outcome EXCEPT ![s] = "no_purchases"]
                  /\ EndRun(s)
             ELSE \E r \in DOMAIN items :
                     IF r.image_url = Missing
                     THEN /\ outcome' = [outcome EXCEPT ![s] = "exception"]
                          /\ EndRun(s)
                     ELSE /\ user_items' = [user_items EXCEPT ![s] = {items}]
                          /\ item_row' = [item_row EXCEPT ![s] = {r}]
                          /\ pc' = [pc EXCEPT ![s] = "submit"]
                          /\ UNCHANGED <<products_df, review_txt, button, review_row,
                                         inserted_at, outcome>>
    /\ UNCHANGED <<dbvars, clock, env_events, runs, catalog_memo, user_name, prev_df,
                   panel>>

\* lines 79-100, 106-107: text area, button; on the button, validation of the
\* stripped text and the row stamped with datetime.utcnow()
Submit(s) ==
    /\ pc[s] = "submit"
    /\ \E t \in Texts, b \in BOOLEAN :
          /\ review_txt' = [review_txt EXCEPT ![s] = {t}]
          /\ button' = [button EXCEPT ![s] = b]
          /\ IF ~b
             THEN /\ pc' = [pc EXCEPT ![s] = "read"]
                  /\ UNCHANGED <<review_row, outcome>>
             ELSE IF Accepted(t)
             THEN /\ review_row' = [review_row EXCEPT ![s] = {ReviewRow(s, t)}]
                  /\ pc' = [pc EXCEPT ![s] = "insert"]
                  /\ UNCHANGED outcome
             ELSE /\ outcome' = [outcome EXCEPT ![s] = "invalid"]
                  /\ pc' = [pc EXCEPT ![s] = "read"]
                  /\ UNCHANGED review_row
    /\ UNCHANGED <<dbvars, envvars, memovars, user_name, products_df, user_items,
                   item_row, inserted_at, prev_df, panel>>

\* lines 82-91, 101-103: insert_review commits the row; st.success
InsertOk(s) ==
    /\ pc[s] = "insert"
    /\ product_reviews' = InsertReview(CHOOSE r \in review_row[s] : TRUE)
    /\ inserted_at' = [inserted_at EXCEPT ![s] = Len(product_reviews) + 1]
    /\ outcome' = [outcome EXCEPT ![s] = "saved"]
    /\ pc' = [pc EXCEPT ![s] = "read"]
    /\ UNCHANGED <<products, orders, envvars, memovars, user_name, products_df,
                   user_items, item_row, review_txt, button, review_row, prev_df, panel>>

\* lines 101-102 without the try: the store's exception ends the run
InsertFailUncaught(s) ==
    /\ pc[s] = "insert"
    /\ outcome' = [outcome EXCEPT ![s] = "exception"]
    /\ EndRun(s)
    /\ UNCHANGED <<dbvars, envvars, memovars, user_name, prev_df, panel>>

\* lines 101-105: the store raises inside insert_review; the transaction of
\* engine.begin() rolls back; except shows "Database error"
InsertFail(s) ==
    /\ pc[s] = "insert"
    /\ outcome' = [outcome EXCEPT ![s] = "dberror"]
    /\ pc' = [pc EXCEPT ![s] = "read"]
    /\ UNCHANGED <<dbvars, envvars, memovars, user_name, localvars, prev_df, panel>>

\* lines 110-123: reviews of the picked product, newest first; the last line
Read(s) ==
    /\ pc[s] = "read"
    /\ \E df \in ReviewsForProduct((CHOOSE r \in item_row[s] : TRUE).product_id) :
          /\ prev_df' = [prev_df EXCEPT ![s] = {df}]
          /\ panel' = [panel EXCEPT ![s] = ReviewsPanel(df)]
    /\ EndRun(s)
    /\ UNCHANGED <<dbvars, envvars, memovars, user_name, outcome>>

\* ------------------------------------------------------------ environment
\* the wall clock advances
Tick ==
    /\ clock < MaxClock
    /\ clock' = clock + 1
    /\ UNCHANGED <<dbvars, env_events, runs, last_lookup, memovars, pc, user_name,
                   localvars, pagevars>>

\* the external order process records an order
PlaceOrder ==
    /\ env_events < MaxEnvEvents
    /\ env_events' = env_events + 1
    /\ \E n \in UserNames, p \in ProductIds :
          LET o == [name |-> n, product_id |-> p]
          IN orders' = IF o \in DOMAIN orders
                       THEN [orders EXCEPT ![o] = @ + 1]
                       ELSE [x \in DOMAIN orders \cup {o} |->
                                IF x = o THEN 1 ELSE orders[x]]
    /\ last_lookup' = [n \in InputNames |-> {}]
    /\ UNCHANGED <<products, product_reviews, clock, runs, memovars, pc, user_name,
                   localvars, pagevars>>

\* the external catalog changes: a product is added, renamed or removed
EditCatalog ==
    /\ env_events < MaxEnvEvents
    /\ env_events' = env_events + 1
    /\ \E p \in ProductIds :
          LET others == {r \in products : r.product_id # p}
          IN \/ /\ \E r \in products : r.product_id = p
                /\ products' = others
             \/ \E v \in ProductRows :
                   /\ products' = others \cup
                         {[product_id |-> p, product_name |-> v.product_name,
                           image_url |-> v.image_url]}
                   /\ products' # products
    /\ last_lookup' = [n \in InputNames |-> {}]
    /\ UNCHANGED <<orders, product_reviews, clock, runs, memovars, pc, user_name,
                   localvars, pagevars>>

\* the host clears st.cache_data: every memoized function forgets its values
ClearCache ==
    /\ env_events < MaxEnvEvents
    /\ env_events' = env_events + 1
    /\ catalog_memo # {} \/ \E n \in InputNames : purchases_memo[n] # {}
    /\ catalog_memo' = {}
    /\ purchases_memo' = [n \in InputNames |-> {}]
    /\ last_lookup' = [n \in InputNames |->
                          {[l EXCEPT !.cleared = TRUE] : l \in last_lookup[n]}]
    /\ UNCHANGED <<dbvars, clock, runs, pc, user_name, localvars, pagevars>>

\* one step of the script run of session s
Run(s) ==
    \/ Start(s)
    \/ Lookup(s)
    \/ Submit(s)
    \/ InsertOk(s)
    \/ InsertFail(s)
    \/ Read(s)

\* concurrent sessions over the orders and the catalog as they are
Next ==
    \/ \E s \in Sessions : Run(s)
    \/ Tick

Spec == Init /\ [][Next]_vars

\* ------------------------------------------------------------- properties
\* every character of t is whitespace
IsBlank(t) == \A i \in 1..Len(t) : t[i] \in Whitespace

\* u is t without its leading and trailing whitespace
IsTrimOf(u, t) ==
    \E i \in 0..Len(t), j \in 0..Len(t) :
       /\ i + j <= Len(t)
       /\ u = SubSeq(t, i + 1, Len(t) - j)
       /\ \A k \in 1..i : t[k] \in Whitespace
       /\ \A k \in (Len(t) - j + 1)..Len(t) : t[k] \in Whitespace
       /\ (u = <<>> \/ (u[1] \notin Whitespace /\ u[Len(u)] \notin Whitespace))

\* the columns sql_prev selects
Shown(r) == [user_name |-> r.user_name, review |-> r.review, ts_utc |-> r.ts_utc]

\* the positions of the reviews of product p
ReviewsOf(p) == {i \in 1..Len(product_reviews) : product_reviews[i].product_id = p}

\* C1: a submit whose text is empty or all whitespace is rejected: the handler
\* goes straight to the review read with the validation message, builds no
\* row, calls no insert and leaves product_reviews as it was, and the read
\* that follows keeps both.
C1_EmptyTextRejected ==
    [][\A s \in Sessions :
          /\ (/\ pc[s] = "submit" /\ pc'[s] # "submit" /\ button'[s]
              /\ \A t \in review_txt'[s] : IsBlank(t))
             => /\ pc'[s] = "read"
                /\ outcome'[s] = "invalid"
                /\ review_row'[s] = {}
                /\ inserted_at'[s] = 0
                /\ product_reviews' = product_reviews
          /\ (pc[s] = "read" /\ outcome[s] = "invalid" /\ pc'[s] # "read")
             => /\ outcome'[s] = "invalid"
                /\ product_reviews' = product_reviews]_vars

C1_Witness ==
    \E s \in Sessions :
       /\ pc[s] = "read" /\ button[s] /\ review_txt[s] = {<<" ", " ">>}
       /\ outcome[s] = "invalid"

\* C2: a submit with a text that is not blank reaches the insert with a row
\* stamped with the clock of that moment; when the store accepts it,
\* product_reviews is the old table with exactly one row appended: the picked
\* product, the session's name, the trimmed text, that timestamp.
C2_AcceptedSubmitAppendsOneRow ==
    [][\A s \in Sessions :
          /\ (/\ pc[s] = "submit" /\ pc'[s] # "submit" /\ button'[s]
              /\ \E t \in review_txt'[s] : ~IsBlank(t))
             => /\ pc'[s] = "insert"
                /\ \E r \in review_row'[s] : r.ts_utc = clock
          /\ (pc[s] = "insert" /\ outcome'[s] = "saved")
             => \E t \in review_txt[s], it \in item_row[s], r \in review_row[s] :
                   LET n == Len(product_reviews)
                       new == product_reviews'[n + 1]
                   IN /\ Len(product_reviews') = n + 1
                      /\ SubSeq(product_reviews', 1, n) = product_reviews
                      /\ new.product_id = it.product_id
                      /\ new.user_name = user_name[s]
                      /\ IsTrimOf(new.review, t)
                      /\ new.review # <<>>
                      /\ new.ts_utc = r.ts_utc]_vars

C2_Witness ==
    \E i, j \in 1..Len(product_reviews) :
       /\ i < j
       /\ product_reviews[i].product_id = product_reviews[j].product_id
       /\ product_reviews[i].user_name = product_reviews[j].user_name

\* C3: when the run that committed a review reads the reviews of its product
\* and no review of that product was committed after its own, its row is the
\* first of the result.
C3_SubmittedRowReadFirst ==
    [][\A s \in Sessions :
          (/\ pc[s] = "read" /\ pc'[s] # "read" /\ inserted_at[s] > 0
           /\ \A i \in ReviewsOf(product_reviews[inserted_at[s]].product_id) :
                 i <= inserted_at[s])
          => \A df \in prev_df'[s] :
                /\ Len(df) > 0
                /\ df[1] = Shown(product_reviews[inserted_at[s]])]_vars

\* C5: an insert that does not commit leaves product_reviews as it was, shows
\* the database error and goes on to the review read; that read ends the run
\* with the error still shown and the reviews read, without another insert.
C5_StoreErrorCaught ==
    [][\A s \in Sessions :
          /\ (pc[s] = "insert" /\ pc'[s] # "insert" /\ outcome'[s] # "saved")
             => /\ outcome'[s] = "dberror"
                /\ pc'[s] = "read"
                /\ item_row'[s] = item_row[s]
                /\ product_reviews' = product_reviews
          /\ (pc[s] = "read" /\ outcome[s] = "dberror" /\ pc'[s] # "read")
             => /\ pc'[s] = "idle"
                /\ outcome'[s] = "dberror"
                /\ prev_df'[s] # {}
                /\ product_reviews' = product_reviews]_vars

C5_Witness ==
    \E s \in Sessions : pc[s] = "idle" /\ outcome[s] = "dberror" /\ prev_df[s] # {}

C7_AppendOnly ==
    [][/\ Len(product_reviews') >= Len(product_reviews)
       /\ SubSeq(product_reviews', 1, Len(product_reviews)) = product_reviews
       /\ orders' = orders
       /\ products' = products]_vars

C7_Witness ==
    /\ Len(product_reviews) >= 2
    /\ \E s \in Sessions : pc[s] = "idle" /\ outcome[s] \in {"invalid", "dberror"}

\* C10: a session with an empty name, or whose lookup was empty, is stopped
\* having read and written no review; a run that is past the lookup has a
\* name and a non-empty lookup result holding the picked row; the row it
\* builds and the row it commits carry that name and a product of that result.
C10_Gating ==
    \A s \in Sessions :
       /\ (user_name[s] = "" \/ outcome[s] = "no_purchases")
          => /\ pc[s] = "idle"
             /\ prev_df[s] = {}
             /\ review_row[s] = {}
             /\ inserted_at[s] = 0
       /\ pc[s] \in {"submit", "insert", "read"}
          => /\ user_name[s] # ""
             /\ item_row[s] # {}
             /\ \E items \in user_items[s] :
                   /\ DOMAIN items # {}
                   /\ item_row[s] \subseteq DOMAIN items
                   /\ \A r \in review_row[s] :
                         /\ r.user_name = user_name[s]
                         /\ r.product_id \in {x.product_id : x \in DOMAIN items}
       /\ inserted_at[s] > 0
          => /\ pc[s] = "read"
             /\ inserted_at[s] <= Len(product_reviews)
             /\ product_reviews[inserted_at[s]] \in review_row[s]
       /\ prev_df[s] # {} => pc[s] = "idle" /\ user_name[s] # ""

C10_Witness ==
    \E s \in Sessions : pc[s] = "read" /\ inserted_at[s] > 0

\* the product ids ordered under exactly this name
OrderedBy(n) ==
    {p \in ProductIds : \E o \in DOMAIN orders : o.name = n /\ o.product_id = p}

\* C4: every purchase lookup returns one entry per distinct product among the
\* orders stored under exactly the session's name as the order store holds
\* them at the call, each with the name and image of the run's catalog when
\* the catalog has the product; with no such order the run shows "no
\* purchases" and no error.
C4_LookupMatchesOrders ==
    [][\A s \in Sessions :
          (pc[s] = "lookup" /\ pc'[s] # "lookup")
          => \A l \in last_lookup'[user_name[s]], df \in products_df[s] :
                /\ {r.product_id : r \in DOMAIN l.result} = OrderedBy(user_name[s])
                /\ BagSize(l.result) = Cardinality(OrderedBy(user_name[s]))
                /\ \A r \in DOMAIN l.result :
                      r.product_id \in DOMAIN df
                      => /\ r.product_name = df[r.product_id].product_name
                         /\ r.image_url = df[r.product_id].image_url
                /\ (OrderedBy(user_name[s]) = {} => outcome'[s] = "no_purchases")]_vars

\* C8: a run finds the catalog that the memo holds, whatever the products
\* table holds by then, and reads the table only when the memo is empty; the
\* run's own catalog is that one; a change of the products table leaves both
\* memos as they are; a lookup returns the memoized rows, or else rows whose
\* name and image are those of the run's catalog; clearing empties both memos.
C8_CatalogReusedUntilCleared ==
    [][/\ runs' # runs
          => /\ catalog_memo # {} => catalog_memo' = catalog_memo
             /\ catalog_memo = {}
                => \E m \in catalog_memo' :
                      /\ DOMAIN m = {r.product_id : r \in products}
                      /\ \A r \in products :
                            m[r.product_id] = [product_name |-> r.product_name,
                                               image_url |-> r.image_url]
       /\ \A s \in Sessions :
             (pc[s] = "idle" /\ pc'[s] = "lookup") => products_df'[s] = catalog_memo'
       /\ products' # products
          => catalog_memo' = catalog_memo /\ purchases_memo' = purchases_memo
       /\ \A s \in Sessions :
             (pc[s] = "lookup" /\ pc'[s] # "lookup")
             => \A l \in last_lookup'[user_name[s]], df \in products_df[s] :
                   IF purchases_memo[user_name[s]] # {}
                   THEN l.result \in purchases_memo[user_name[s]]
                   ELSE \A r \in DOMAIN l.result :
                           IF r.product_id \in DOMAIN df
                           THEN /\ r.product_name = df[r.product_id].product_name
                                /\ r.image_url = df[r.product_id].image_url
                           ELSE r.product_name = Missing /\ r.image_url = Missing
       /\ (env_events' # env_events /\ products' = products /\ orders' = orders)
          => /\ catalog_memo' = {}
             /\ \A n \in InputNames : purchases_memo'[n] = {}]_vars

\* a lookup made after the catalog last changed has returned a name that the
\* products table does not hold for that product
C8_Witness ==
    \E n \in UserNames : \E l \in last_lookup[n] : \E r \in DOMAIN l.result :
       /\ r.product_name # Missing
       /\ ~ \E x \in products :
               x.product_id = r.product_id /\ x.product_name = r.product_name

\* C9 as stated: a lookup of a name that was looked up before, with the
\* orders and products tables unchanged since, returns the result of the
\* lookup before it, and writes no table.
C9_RepeatLookupIdentical ==
    [][\A s \in Sessions :
          (pc[s] = "lookup" /\ pc'[s] # "lookup")
          => /\ \A l \in last_lookup[user_name[s]], m \in last_lookup'[user_name[s]] :
                   m.result = l.result
             /\ UNCHANGED dbvars]_vars

\* C9 amended: the same, for two lookups with no cache clearing between them.
C9_RepeatLookupIdenticalUncleared ==
    [][\A s \in Sessions :
          (pc[s] = "lookup" /\ pc'[s] # "lookup")
          => /\ \A l \in last_lookup[user_name[s]], m \in last_lookup'[user_name[s]] :
                   ~l.cleared => m.result = l.result
             /\ UNCHANGED dbvars]_vars

\* the second run of a session is past its lookup under the name of the
\* review its first run committed, with no order, catalog or cache event
C9_Witness ==
    \E s \in Sessions :
       /\ runs = 2 /\ env_events = 0
       /\ pc[s] = "submit"
       /\ Len(product_reviews) = 1
       /\ product_reviews[1].user_name = user_name[s]
       /\ \E l \in last_lookup[user_name[s]] : ~l.cleared /\ DOMAIN l.result # {}

\* one session while the order process, the catalog maintainer and the host's
\* cache clearing act
NextData ==
    \/ Run("s1")
    \/ PlaceOrder
    \/ EditCatalog
    \/ ClearCache

SpecData == Init /\ [][NextData]_vars
====
